---- MODULE Spec2Model ----
(***************************************************************************)
(* Recording state machine and fence-wait / notification dispatcher of the *)
(* Vulkan renderer context (vita3k/renderer/src/vulkan/context.cpp).       *)
(*                                                                         *)
(* Two threads share the request queue: the render thread runs the         *)
(* handlers set_context, start_recording, start_render_pass,               *)
(* stop_render_pass and stop_recording; the wait thread runs               *)
(* wait_thread_function.  The GPU signals submitted fences.                *)
(***************************************************************************)
EXTENDS Integers, Sequences, FiniteSets, TLC

\* ------------------------------------------------------------------ bounds
\* number of in-flight frame slots (length of the per-frame arrays)
FrameSlots == 2
\* command buffers per frame slot the render target is created with
ScenesPerFrame == 1
\* recording sessions (accepted start_recording calls) explored when the
\* render thread runs alone
MaxSessions == 3
\* recording sessions explored when the render thread runs beside the wait thread
SyncSessions == 2
\* recording sessions explored on a device whose waits can fail, beside a
\* thread that reads the notifications, and over every colour surface
FewSessions == 1
\* highest frame timestamp explored
MaxFrameTs == 3
\* largest render target width explored (the extent doubling is capped here)
MaxExtent == 16
\* guest notification addresses are 1..MaxAddr; 0 is the empty address
MaxAddr == 1
\* extent the render target is created with
BaseWidth == 4
BaseHeight == 6

\* ------------------------------------------------------------------ values
NullRT == "null"
TheRT == "rt"
NullCmd == <<"null", 0, 0>>
NullFence == 0
NoRequest == [kind |-> "none", id |-> 0, fence |-> NullFence,
              notifications |-> <<[address |-> 0, value |-> 0], [address |-> 0, value |-> 0]>>,
              frame_timestamp |-> 0, cache_info |-> 0]

Slots == 0 .. (FrameSlots - 1)
Addrs == 0 .. MaxAddr

VARIABLES
    ctx,              \* VKContext: the render thread's fields
    rt,               \* VKRenderTarget: the one render target
    state,            \* VKState: features and configuration
    rendered_fences,  \* frame slot -> fences submitted in it (FrameObject)
    slot_timestamp,   \* frame slot -> timestamp of the frame that last used it
    fence_state,      \* fence -> "U" unsignaled, "P" submitted, "S" signaled
    request_queue,    \* the request queue, oldest first
    rt_pc,            \* render thread: "run", "new_frame_wait", "crashed", "closed"
    wt_pc,            \* wait thread position
    wait_request,     \* wait thread: the request popped last
    wt_fences,        \* wait thread: the local vector of fences to wait for
    mem,              \* guest memory: address -> value
    last_frame_waited,
    notification_mutex, \* holder of state.notification_mutex
    device,           \* the Vulkan side: command buffers being recorded, open passes
    hist              \* history: counters and logs the claims are stated on

vars == <<ctx, rt, state, rendered_fences, slot_timestamp, fence_state, request_queue,
          rt_pc, wt_pc, wait_request, wt_fences, mem, last_frame_waited,
          notification_mutex, device, hist>>

render_vars == <<ctx, rt, rendered_fences, slot_timestamp, rt_pc>>
wait_vars == <<wt_pc, wait_request, wt_fences, mem, last_frame_waited, notification_mutex>>

\* ------------------------------------------------------------------ helpers
InsertAt(s, idx, x) == SubSeq(s, 1, idx) \o <<x>> \o SubSeq(s, idx + 1, Len(s))

SeqSet(s) == {s[i] : i \in 1 .. Len(s)}

RenderCmd(slot, k) == <<"render", slot, k>>
PrerenderCmd(slot, k) == <<"prerender", slot, k>>

\* the state a render-thread handler reads and writes, as one record
Machine == [c |-> ctx, t |-> rt, rendered_fences |-> rendered_fences,
            fence_state |-> fence_state, queue |-> request_queue,
            dev |-> device, ub |-> FALSE, h |-> hist]

\* ------------------------------------------------- external collaborators
\* the request queue: push appends, pop takes the oldest request
queue_push(queue, request) == Append(queue, request)
queue_front(queue) == Head(queue)
queue_pop(queue) == Tail(queue)

\* gxm::get_base_format: the colour format without its swizzle
get_base_format(colorFormat) ==
    IF colorFormat = "U8U8U8U8_ABGR" THEN "U8U8U8U8" ELSE "F16F16F16F16"

\* color::translate_format: the native format of a base format
translate_format(base) ==
    IF base = "U8U8U8U8" THEN "R8G8B8A8Unorm" ELSE "R16G16B16A16Sfloat"

ColorFormats == {"U8U8U8U8_ABGR", "F16F16F16F16_ABGR"}

\* every colour surface (record.color_surface)
AllColorSurfaces == [colorFormat : ColorFormats, gamma : BOOLEAN,
                     address : {0, 1}, downscale : BOOLEAN]

\* the colour surfaces the recording runs are set up with: with and without
\* backing memory, with and without downscale
ColorSurfaces == {cs \in AllColorSurfaces : cs.colorFormat = "U8U8U8U8_ABGR" /\ cs.gamma}

\* ------------------------------------------------------ VKContext handlers
\* start_recording that notes the new frame but keeps the index of the last one
reset_cmd_buffer_idx_keep(t, frame_timestamp) ==
    [t EXCEPT !.last_used_frame = frame_timestamp]

\* start_recording lines 164-168: a new frame starts at command buffer 0
reset_cmd_buffer_idx(t, frame_timestamp) ==
    IF t.last_used_frame # frame_timestamp
    THEN [t EXCEPT !.cmd_buffer_idx = 0, !.last_used_frame = frame_timestamp]
    ELSE t

\* the growth with the new fence put at the end of the ring (push_back)
grow_pools_fence_at_end(t, cur, newf) ==
    [t EXCEPT
       !.cmd_buffers[cur] = Append(@, RenderCmd(cur, Len(@) + 1)),
       !.pre_cmd_buffers[cur] = Append(@, PrerenderCmd(cur, Len(@) + 1)),
       !.fences = Append(@, newf)]

\* start_recording lines 171-189: one more command buffer of each kind for
\* frame slot cur, and the fence newf as the next fence of the ring
grow_pools(t, cur, newf) ==
    [t EXCEPT
       !.cmd_buffers[cur] = Append(@, RenderCmd(cur, Len(@) + 1)),
       !.pre_cmd_buffers[cur] = Append(@, PrerenderCmd(cur, Len(@) + 1)),
       !.fences = InsertAt(@, t.fence_idx, newf)]

\* VKContext::start_recording, after its two early returns
start_recording_body(m) ==
    LET c == m.c
        cur == c.current_frame_idx
        t1 == reset_cmd_buffer_idx(m.t, c.frame_timestamp)
        grow == t1.cmd_buffer_idx = Len(t1.cmd_buffers[cur])
        newf == m.h.next_fence
        t2 == IF grow THEN grow_pools(t1, cur, newf) ELSE t1
        t3 == [t2 EXCEPT !.cmd_buffer_idx = @ + 1]
        fs == IF grow THEN (newf :> "U") @@ m.fence_state ELSE m.fence_state
        h1 == [m.h EXCEPT
                 !.next_fence = IF grow THEN @ + 1 ELSE @,
                 !.sessions = @ + 1,
                 !.sessions_in_frame = @ + 1,
                 !.frame_cmds = Append(@, t2.cmd_buffers[cur][t2.cmd_buffer_idx + 1]),
                 !.session = [grew |-> grow, new_fence |-> IF grow THEN newf ELSE NullFence]]
    IN  [m EXCEPT
           !.t = t3,
           !.fence_state = fs,
           !.h = h1,
           !.c = [c EXCEPT
                    !.render_cmd = t2.cmd_buffers[cur][t2.cmd_buffer_idx + 1],
                    !.prerender_cmd = t2.pre_cmd_buffers[cur][t2.cmd_buffer_idx + 1],
                    !.is_recording = TRUE],
           \* render_cmd.begin, prerender_cmd.begin
           !.dev = [m.dev EXCEPT
                      !.recording = @ \cup {t2.cmd_buffers[cur][t2.cmd_buffer_idx + 1],
                                            t2.pre_cmd_buffers[cur][t2.cmd_buffer_idx + 1]},
                      !.begun = @ + 1]]

\* start_recording without the check for a recording in progress
start_recording_while_recording(m) ==
    IF m.c.render_target = NullRT THEN m
    ELSE start_recording_body(m)

\* VKContext::start_recording
start_recording(m) ==
    IF m.c.is_recording THEN m
    ELSE IF m.c.render_target = NullRT THEN m
    ELSE start_recording_body(m)

\* VKContext::start_render_pass, after the early return; a render target is bound
start_render_pass_body(m) ==
    LET m1 == IF ~m.c.is_recording THEN start_recording(m) ELSE m
    IN  [m1 EXCEPT
           \* with no render target bound the implicit start is rejected and
           \* render_target->width reads through a null pointer
           !.ub = (m1.c.render_target = NullRT),
           !.c = [m1.c EXCEPT
                    !.texture_cache = "unbound",
                    !.rendertarget_set = "set",
                    !.refresh_pipeline = TRUE,
                    !.in_renderpass = TRUE],
           \* render_cmd.beginRenderPass
           !.dev = [m1.dev EXCEPT !.passes_open = @ + 1]]

\* start_render_pass without the check for an open render pass
start_render_pass_unguarded(m) == start_render_pass_body(m)

\* VKContext::start_render_pass
start_render_pass(m) ==
    IF m.c.in_renderpass THEN m
    ELSE start_render_pass_body(m)

\* VKContext::stop_render_pass
stop_render_pass(m) ==
    IF ~m.c.in_renderpass THEN m
    ELSE [m EXCEPT !.c = [m.c EXCEPT !.in_renderpass = FALSE],
                   \* endRenderPass on a null command buffer handle
                   !.ub = (m.c.render_cmd = NullCmd),
                   !.dev = [m.dev EXCEPT !.passes_open = @ - 1]]

\* a request as stop_recording and new_frame build it; id numbers the pushes
NotificationRequest(id, notif1, notif2, fence) ==
    [NoRequest EXCEPT !.kind = "NotificationRequest", !.id = id,
                      !.notifications = <<notif1, notif2>>, !.fence = fence]
PostSurfaceSyncRequest(id, cache_info) ==
    [NoRequest EXCEPT !.kind = "PostSurfaceSyncRequest", !.id = id, !.cache_info = cache_info]
FrameDoneRequest(id, ts) ==
    [NoRequest EXCEPT !.kind = "FrameDoneRequest", !.id = id, !.frame_timestamp = ts]

\* the two pushes of stop_recording with the PostSurfaceSyncRequest sent first
push_requests_sync_first(m, notif1, notif2, fence, surface_info) ==
    LET id == m.h.next_id
        q1 == IF surface_info # 0
              THEN queue_push(m.queue, PostSurfaceSyncRequest(id + 1, surface_info))
              ELSE m.queue
        q2 == queue_push(q1, NotificationRequest(id, notif1, notif2, fence))
    IN  [m EXCEPT !.queue = q2,
                  !.h = [m.h EXCEPT
                           !.next_id = IF surface_info # 0 THEN id + 2 ELSE id + 1,
                           !.notif_ids = @ \cup {id},
                           !.expected = @ \cup {[id |-> id, slot |-> k,
                                                  address |-> <<notif1, notif2>>[k].address,
                                                  value |-> <<notif1, notif2>>[k].value] :
                                                 k \in {j \in 1 .. 2 : <<notif1, notif2>>[j].address # 0}}]]

\* request_queue.push for the one or two requests stop_recording sends
push_requests(m, notif1, notif2, fence, surface_info) ==
    LET id == m.h.next_id
        q1 == queue_push(m.queue, NotificationRequest(id, notif1, notif2, fence))
        q2 == IF surface_info # 0
              THEN queue_push(q1, PostSurfaceSyncRequest(id + 1, surface_info))
              ELSE q1
    IN  [m EXCEPT !.queue = q2,
                  !.h = [m.h EXCEPT
                           !.next_id = IF surface_info # 0 THEN id + 2 ELSE id + 1,
                           !.notif_ids = @ \cup {id},
                           !.expected = @ \cup {[id |-> id, slot |-> k,
                                                  address |-> <<notif1, notif2>>[k].address,
                                                  value |-> <<notif1, notif2>>[k].value] :
                                                 k \in {j \in 1 .. 2 : <<notif1, notif2>>[j].address # 0}}]]

\* stop_recording lines 355-359: revert the extent doubling of set_context
revert_extent(m) ==
    IF m.t.multisample_mode # 0 /\ ~m.c.record.color_surface.downscale
    THEN [m EXCEPT !.t = [m.t EXCEPT !.width = @ \div 2, !.height = @ \div 2]]
    ELSE m

\* the submit with a fence index that is not taken back to 0 at the end of the ring
submit_with_fence_no_wrap(m) ==
    LET fence == m.t.fences[m.t.fence_idx + 1]
        cur == m.c.current_frame_idx
    IN  [m EXCEPT
           !.t = [m.t EXCEPT !.fence_idx = @ + 1],
           !.fence_state = [m.fence_state EXCEPT ![fence] = "P"],
           !.rendered_fences = [m.rendered_fences EXCEPT ![cur] = Append(@, fence)],
           !.dev = [m.dev EXCEPT !.recording = @ \ {m.c.render_cmd, m.c.prerender_cmd}],
           !.h = [m.h EXCEPT !.submitted = fence,
                             !.submit_in_pass = m.c.in_renderpass,
                             !.frame_fences = Append(@, fence),
                             !.resubmitted = @ \/ (m.fence_state[fence] # "U")]]

\* stop_recording lines 329-340: take the next fence of the ring and submit with it
submit_with_fence(m) ==
    LET fence == m.t.fences[m.t.fence_idx + 1]
        nidx == IF m.t.fence_idx + 1 = Len(m.t.fences) THEN 0 ELSE m.t.fence_idx + 1
        cur == m.c.current_frame_idx
    IN  [m EXCEPT
           !.t = [m.t EXCEPT !.fence_idx = nidx],
           !.fence_state = [m.fence_state EXCEPT ![fence] = "P"],
           !.rendered_fences = [m.rendered_fences EXCEPT ![cur] = Append(@, fence)],
           !.dev = [m.dev EXCEPT !.recording = @ \ {m.c.render_cmd, m.c.prerender_cmd}],
           !.h = [m.h EXCEPT !.submitted = fence,
                             !.submit_in_pass = m.c.in_renderpass,
                             !.frame_fences = Append(@, fence),
                             !.resubmitted = @ \/ (m.fence_state[fence] # "U")]]

\* stop_recording that submits first and closes the render pass afterwards
stop_recording_body_late_pass(m, notif1, notif2, disable_surface_sync, sync) ==
    LET m1 == IF m.c.is_in_query
              THEN [m EXCEPT !.c = [m.c EXCEPT !.is_in_query = FALSE]]
              ELSE m
        m3 == IF m1.c.visibility_max_used_idx # -1
              THEN [m1 EXCEPT !.c = [m1.c EXCEPT !.visibility_max_used_idx = -1]]
              ELSE m1
        surface_info == IF state.features.support_memory_mapping /\ ~disable_surface_sync
                        THEN sync ELSE 0
        m5 == submit_with_fence(m3)
        m6 == IF state.features.support_memory_mapping
              THEN push_requests(m5, notif1, notif2, m5.h.submitted, surface_info)
              ELSE m5
        m7 == revert_extent(m6)
        m8 == IF m7.c.in_renderpass THEN stop_render_pass(m7) ELSE m7
    IN  [m8 EXCEPT
           !.c = [m8.c EXCEPT !.render_cmd = NullCmd, !.prerender_cmd = NullCmd,
                              !.is_recording = FALSE],
           !.h = [m8.h EXCEPT !.ctx_pending = {},
                              !.stopped_in_query = m.c.in_renderpass /\ m.c.is_in_query]]

\* VKContext::stop_recording, after the early return.  disable_surface_sync is
\* the configuration flag as the call finds it, sync the handle
\* perform_surface_sync returns when it is called (0: none)
stop_recording_body(m, notif1, notif2, disable_surface_sync, sync) ==
    LET m1 == IF m.c.is_in_query
              THEN [m EXCEPT !.c = [m.c EXCEPT !.is_in_query = FALSE]]
              ELSE m
        m2 == IF m1.c.in_renderpass THEN stop_render_pass(m1) ELSE m1
        m3 == IF m2.c.visibility_max_used_idx # -1
              THEN [m2 EXCEPT !.c = [m2.c EXCEPT !.visibility_max_used_idx = -1]]
              ELSE m2
        surface_info == IF state.features.support_memory_mapping /\ ~disable_surface_sync
                        THEN sync ELSE 0
        m5 == submit_with_fence(m3)
        m6 == IF state.features.support_memory_mapping
              THEN push_requests(m5, notif1, notif2, m5.h.submitted, surface_info)
              ELSE m5
        m7 == revert_extent(m6)
    IN  [m7 EXCEPT
           !.c = [m7.c EXCEPT !.render_cmd = NullCmd, !.prerender_cmd = NullCmd,
                              !.is_recording = FALSE],
           !.h = [m7.h EXCEPT !.ctx_pending = {},
                              !.stopped_in_query = m.c.in_renderpass /\ m.c.is_in_query]]

\* stop_recording without the check that a recording is in progress
stop_recording_unguarded(m, notif1, notif2, disable_surface_sync, sync) ==
    stop_recording_body(m, notif1, notif2, disable_surface_sync, sync)

\* VKContext::stop_recording
stop_recording(m, notif1, notif2, disable_surface_sync, sync) ==
    IF ~m.c.is_recording THEN m
    ELSE stop_recording_body(m, notif1, notif2, disable_surface_sync, sync)

\* set_context lines 125-129: emulate MSAA without downscale by doubling the extent
double_extent(m) ==
    IF m.t.multisample_mode # 0 /\ ~m.c.record.color_surface.downscale
    THEN [m EXCEPT !.t = [m.t EXCEPT !.width = @ * 2, !.height = @ * 2]]
    ELSE m

\* set_context without the defaults for a colour surface that has no memory
surface_formats_no_default(record) ==
    LET cs == record.color_surface
        base == get_base_format(cs.colorFormat)
        fmt0 == translate_format(base)
        fmt1 == IF cs.gamma /\ fmt0 = "R8G8B8A8Unorm" THEN "R8G8B8A8Srgb" ELSE fmt0
        r1 == [record EXCEPT !.color_base_format = base, !.is_gamma_corrected = cs.gamma]
    IN  [record |-> r1, vk_format |-> fmt1,
         color_surface_fin |-> IF cs.address = 0 THEN "null" ELSE "color_surface"]

\* set_context lines 104-123: the formats of the colour surface in the record.
\* Gives the record and the format the render pass is asked for
surface_formats(record) ==
    LET cs == record.color_surface
        base == get_base_format(cs.colorFormat)
        fmt0 == translate_format(base)
        fmt1 == IF cs.gamma /\ fmt0 = "R8G8B8A8Unorm" THEN "R8G8B8A8Srgb" ELSE fmt0
        r1 == [record EXCEPT !.color_base_format = base, !.is_gamma_corrected = cs.gamma]
    IN  IF cs.address = 0
        THEN [record |-> [r1 EXCEPT !.color_surface.downscale = FALSE,
                                    !.is_gamma_corrected = FALSE,
                                    !.is_maskupdate = FALSE,
                                    !.color_base_format = "U8U8U8U8"],
              vk_format |-> "R8G8B8A8Unorm", color_surface_fin |-> "null"]
        ELSE [record |-> r1, vk_format |-> fmt1, color_surface_fin |-> "color_surface"]

\* set_context.  rtarg is the render target argument (NullRT: use
\* current_render_target); the colour surface is the one in context.record
set_context(m, rtarg) ==
    LET target == IF rtarg # NullRT THEN rtarg ELSE m.c.current_render_target
        sf == surface_formats(m.c.record)
        m1 == [m EXCEPT !.c = [m.c EXCEPT !.render_target = target,
                                          !.record = sf.record],
                        !.h = [m.h EXCEPT !.ctx_pending = @ \cup {<<m.t.width, m.t.height>>}]]
        m2 == double_extent(m1)
        m3 == start_recording(m2)
        m4 == [m3 EXCEPT
                 !.c = [m3.c EXCEPT
                          !.current_render_pass = sf.vk_format,
                          !.current_framebuffer = [color |-> sf.color_surface_fin]]]
    IN  start_render_pass(m4)

\* ------------------------------------------------------------ initial state
NoNotif == [address |-> 0, value |-> 0]

InitCtx ==
    [is_recording |-> FALSE, in_renderpass |-> FALSE, is_in_query |-> FALSE,
     visibility_max_used_idx |-> -1,
     render_target |-> NullRT, current_render_target |-> TheRT,
     render_cmd |-> NullCmd, prerender_cmd |-> NullCmd,
     frame_timestamp |-> 1, current_frame_idx |-> 0,
     record |-> [color_surface |-> [colorFormat |-> "U8U8U8U8_ABGR", gamma |-> FALSE,
                                    address |-> 0, downscale |-> FALSE],
                 color_base_format |-> "U8U8U8U8", is_gamma_corrected |-> FALSE,
                 is_maskupdate |-> FALSE],
     current_render_pass |-> "none",
     current_framebuffer |-> [color |-> "none"],
     rendertarget_set |-> "null", refresh_pipeline |-> FALSE, texture_cache |-> "unbound"]

\* the render target as its creation leaves it
InitRT(multisample_mode) ==
    [cmd_buffer_idx |-> 0, last_used_frame |-> 0, fence_idx |-> 0,
     fences |-> [i \in 1 .. (FrameSlots * ScenesPerFrame) |-> i],
     cmd_buffers |-> [s \in Slots |-> [k \in 1 .. ScenesPerFrame |-> RenderCmd(s, k)]],
     pre_cmd_buffers |-> [s \in Slots |-> [k \in 1 .. ScenesPerFrame |-> PrerenderCmd(s, k)]],
     width |-> BaseWidth, height |-> BaseHeight,
     multisample_mode |-> multisample_mode]

InitHist(budget) ==
    [budget |-> budget, sessions |-> 0, next_fence |-> FrameSlots * ScenesPerFrame + 1,
     next_id |-> 1, sessions_in_frame |-> 0,
     session |-> [grew |-> FALSE, new_fence |-> NullFence],
     ctx_pending |-> {}, submitted |-> NullFence,
     frame_fences |-> <<>>, frame_cmds |-> <<>>, resubmitted |-> FALSE,
     last_call |-> [name |-> "none", changed |-> FALSE],
     submit_in_pass |-> FALSE, stopped_in_query |-> FALSE,
     notif_ids |-> {}, expected |-> {},
     batch_ids |-> <<>>, waited_ids |-> {}, writes |-> {}, dup_write |-> FALSE,
     finalized |-> {}, notified |-> {}, popped |-> <<>>]

\* the state after the context and its render target are created.
\* multisample and memory_mapping are the configurations explored, budget the
\* number of recording sessions explored
InitWith(multisample, memory_mapping, budget) ==
    /\ ctx = InitCtx
    /\ \E ms \in multisample : rt = InitRT(ms)
    /\ \E mm \in memory_mapping : state = [features |-> [support_memory_mapping |-> mm]]
    /\ rendered_fences = [s \in Slots |-> <<>>]
    /\ slot_timestamp = [s \in Slots |-> IF s = 0 THEN 1 ELSE 0]
    /\ fence_state = [f \in 1 .. (FrameSlots * ScenesPerFrame) |-> "U"]
    /\ request_queue = <<>>
    /\ rt_pc = "run"
    /\ wt_pc = "pop"
    /\ wait_request = NoRequest
    /\ wt_fences = <<>>
    /\ mem = [a \in 1 .. MaxAddr |-> 0]
    /\ last_frame_waited = 0
    /\ notification_mutex = "free"
    /\ device = [recording |-> {}, begun |-> 0, passes_open |-> 0]
    /\ hist = InitHist(budget)

\* without memory mapping nothing is ever pushed to the wait thread, which
\* stays blocked in pop: the render thread and the GPU are the whole system
Init == InitWith({0, 1}, {FALSE}, MaxSessions)

\* with memory mapping the render thread feeds the wait thread
InitSync == InitWith({0}, BOOLEAN, SyncSessions)

\* ------------------------------------------------------ render thread steps
\* a handler returns: its result becomes the state.  A handler that ran into
\* undefined behaviour either takes the process down or carries on
Return(name, m) ==
    /\ ctx' = m.c
    /\ rt' = m.t
    /\ rendered_fences' = m.rendered_fences
    /\ fence_state' = m.fence_state
    /\ request_queue' = m.queue
    /\ hist' = [m.h EXCEPT !.last_call = [name |-> name, changed |-> m # Machine],
                           !.stopped_in_query = @ /\ name = "stop_recording"]
    /\ device' = m.dev
    /\ \E outcome \in (IF m.ub THEN {"crashed", "run"} ELSE {"run"}) : rt_pc' = outcome
    /\ m.h.sessions <= m.h.budget
    /\ m.t.width <= MaxExtent
    /\ UNCHANGED <<state, slot_timestamp, wait_vars>>

\* set_context on a record whose colour surface is cs
SetContextWith(rtarg, cs) ==
    /\ rt_pc = "run"
    /\ Return("set_context", set_context([Machine EXCEPT !.c.record.color_surface = cs], rtarg))

SetContext == \E rtarg \in {NullRT, TheRT}, cs \in ColorSurfaces : SetContextWith(rtarg, cs)

\* the scenes of the runs beside the wait thread have one colour surface
SetContextSync ==
    \E rtarg \in {NullRT, TheRT} :
        SetContextWith(rtarg, [colorFormat |-> "U8U8U8U8_ABGR", gamma |-> TRUE,
                               address |-> 1, downscale |-> FALSE])

\* set_context on a record with any colour surface and mask update setting
SetContextSurface ==
    \E rtarg \in {NullRT, TheRT}, cs \in AllColorSurfaces, maskupdate \in BOOLEAN :
        /\ rt_pc = "run"
        /\ Return("set_context",
                  set_context([Machine EXCEPT !.c.record.color_surface = cs,
                                              !.c.record.is_maskupdate = maskupdate], rtarg))

StartRecording ==
    /\ rt_pc = "run"
    /\ Return("start_recording", start_recording(Machine))

StartRenderPass ==
    /\ rt_pc = "run"
    /\ Return("start_render_pass", start_render_pass(Machine))

StopRenderPass ==
    /\ rt_pc = "run"
    /\ Return("stop_render_pass", stop_render_pass(Machine))

Notification(address, value) ==
    [address |-> address, value |-> IF address = 0 THEN 0 ELSE value]

\* the arguments and surroundings of one stop_recording call: the two
\* notifications' addresses, the disable_surface_sync setting, and whether
\* perform_surface_sync hands back a handle
StopInputs == [a1 : Addrs, a2 : Addrs, disable_surface_sync : BOOLEAN, produced : BOOLEAN]

\* the notifications of a call; the values name the session and the slot
NotifValue(s, k) == 2 * s - 2 + k
Notif1(in) == Notification(in.a1, NotifValue(hist.sessions, 1))
Notif2(in) == Notification(in.a2, NotifValue(hist.sessions, 2))
\* the handle perform_surface_sync returns; it names the session
SyncHandle(in) == IF in.produced THEN hist.sessions ELSE 0

StopRecordingWith(in) ==
    /\ rt_pc = "run"
    /\ Return("stop_recording", stop_recording(Machine, Notif1(in), Notif2(in),
                                               in.disable_surface_sync, SyncHandle(in)))

StopRecording == \E in \in StopInputs : StopRecordingWith(in)

\* ---------------------------------------------------- environment of the core
\* a draw inside the render pass binds textures and a pipeline and, when the
\* draw is counted for visibility, opens an occlusion query
Draw ==
    /\ rt_pc = "run"
    /\ ctx.in_renderpass /\ ctx.is_recording
    /\ \E visibility \in BOOLEAN :
          ctx' = [ctx EXCEPT !.texture_cache = "bound", !.refresh_pipeline = FALSE,
                             !.is_in_query = @ \/ visibility,
                             !.visibility_max_used_idx = IF visibility THEN 0 ELSE @]
    /\ hist' = [hist EXCEPT !.last_call = [name |-> "draw", changed |-> TRUE]]
    /\ UNCHANGED <<rt, state, rendered_fences, slot_timestamp, fence_state, request_queue,
                   rt_pc, wait_vars, device>>

\* new_frame, first half: announce the finished frame to the wait thread and
\* move to the next frame slot
NewFrameBegin ==
    /\ rt_pc = "run"
    /\ ~ctx.is_recording /\ ~ctx.in_renderpass
    /\ ctx.frame_timestamp < MaxFrameTs
    /\ request_queue' = IF state.features.support_memory_mapping
                        THEN queue_push(request_queue,
                                        FrameDoneRequest(hist.next_id, ctx.frame_timestamp))
                        ELSE request_queue
    /\ ctx' = [ctx EXCEPT !.frame_timestamp = @ + 1,
                          !.current_frame_idx = (@ + 1) % FrameSlots]
    /\ hist' = [hist EXCEPT !.next_id = IF state.features.support_memory_mapping THEN @ + 1 ELSE @,
                            !.sessions_in_frame = 0, !.frame_fences = <<>>,
                            !.frame_cmds = <<>>,
                            !.last_call = [name |-> "new_frame", changed |-> TRUE],
                            !.stopped_in_query = FALSE]
    /\ rt_pc' = "new_frame_wait"
    /\ UNCHANGED <<rt, state, rendered_fences, slot_timestamp, fence_state, wait_vars, device>>

\* new_frame, second half: once the frame that used this slot before is fully
\* waited, reset its fences and forget them
NewFrameEnd ==
    /\ rt_pc = "new_frame_wait"
    /\ LET slot == ctx.current_frame_idx
           old == SeqSet(rendered_fences[slot])
       IN  /\ old # {} =>
                 IF state.features.support_memory_mapping
                 THEN last_frame_waited >= slot_timestamp[slot]
                 ELSE \A f \in old : fence_state[f] = "S"
           /\ fence_state' = [f \in DOMAIN fence_state |->
                                 IF f \in old THEN "U" ELSE fence_state[f]]
           /\ rendered_fences' = [rendered_fences EXCEPT ![slot] = <<>>]
           /\ slot_timestamp' = [slot_timestamp EXCEPT ![slot] = ctx.frame_timestamp]
    /\ rt_pc' = "run"
    /\ UNCHANGED <<ctx, rt, state, request_queue, wait_vars, device, hist>>

\* the GPU finishes a submission: its fence becomes signaled
GpuSignal ==
    /\ rt_pc # "crashed"
    /\ \E f \in DOMAIN fence_state :
          /\ fence_state[f] = "P"
          /\ fence_state' = [fence_state EXCEPT ![f] = "S"]
    /\ UNCHANGED <<ctx, rt, state, rendered_fences, slot_timestamp, request_queue,
                   rt_pc, wait_vars, device, hist>>

\* ------------------------------------------------------------- wait thread
HasAddress(request) ==
    request.notifications[1].address # 0 \/ request.notifications[2].address # 0

\* the dispatch with a PostSurfaceSyncRequest handler that does not wait
dispatch_sync_without_wait(request) ==
    CASE request.kind = "NotificationRequest" ->
             IF request.notifications[1].address # 0 \/ request.notifications[2].address # 0
             THEN "notification_wait" ELSE "pop"
      [] request.kind = "FrameDoneRequest" -> "frame_done_wait"
      [] OTHER -> "post_surface_sync"

\* the dispatch with a FrameDoneRequest handler that does not wait
dispatch_frame_done_without_wait(request) ==
    CASE request.kind = "NotificationRequest" ->
             IF request.notifications[1].address # 0 \/ request.notifications[2].address # 0
             THEN "notification_wait" ELSE "pop"
      [] request.kind = "FrameDoneRequest" -> "frame_done"
      [] OTHER -> "post_surface_sync_wait"

\* std::visit: where the handler of a request starts.  Every handler waits
\* for the batch first, but a NotificationRequest without an address is done
\* once its fence is in the batch
dispatch(request) ==
    CASE request.kind = "NotificationRequest" ->
             IF HasAddress(request) THEN "notification_wait" ELSE "pop"
      [] request.kind = "FrameDoneRequest" -> "frame_done_wait"
      [] OTHER -> "post_surface_sync_wait"

\* request_queue.pop() and the dispatch on the request's kind, up to the first
\* wait: a NotificationRequest's fence joins the batch
WtPop ==
    /\ rt_pc # "crashed"
    /\ wt_pc = "pop"
    /\ request_queue # <<>>
    /\ LET request == queue_front(request_queue)
       IN  /\ wait_request' = request
           /\ request_queue' = queue_pop(request_queue)
           /\ wt_fences' = IF request.kind = "NotificationRequest"
                           THEN Append(wt_fences, request.fence) ELSE wt_fences
           /\ hist' = [hist EXCEPT
                         !.popped = Append(@, request.id),
                         !.batch_ids = IF request.kind = "NotificationRequest"
                                       THEN Append(@, request.id) ELSE @]
           /\ wt_pc' = dispatch(request)
    /\ UNCHANGED <<ctx, rt, state, rendered_fences, slot_timestamp, fence_state, rt_pc,
                   mem, last_frame_waited, notification_mutex, device>>

AfterWait(pc) ==
    CASE pc = "notification_wait" -> "notification_lock"
      [] pc = "frame_done_wait" -> "frame_done"
      [] OTHER -> "post_surface_sync"

\* wait_for_fences returning without every fence of the batch signaled, as
\* with a zero timeout whose result is not looked at
wait_for_fences_no_wait ==
    /\ rt_pc # "crashed"
    /\ wt_pc \in {"notification_wait", "frame_done_wait", "post_surface_sync_wait"}
    /\ wt_fences' = <<>>
    /\ hist' = [hist EXCEPT !.waited_ids = @ \cup SeqSet(hist.batch_ids), !.batch_ids = <<>>]
    /\ wt_pc' = AfterWait(wt_pc)
    /\ UNCHANGED <<ctx, rt, state, rendered_fences, slot_timestamp, fence_state, request_queue,
                   rt_pc, wait_request, mem, last_frame_waited, notification_mutex, device>>

\* the wait_for_fences lambda: returns at once on an empty batch, else when
\* every fence of the batch is signaled, and clears the batch
wait_for_fences ==
    /\ rt_pc # "crashed"
    /\ wt_pc \in {"notification_wait", "frame_done_wait", "post_surface_sync_wait"}
    /\ \A i \in 1 .. Len(wt_fences) : fence_state[wt_fences[i]] = "S"
    /\ wt_fences' = <<>>
    /\ hist' = [hist EXCEPT !.waited_ids = @ \cup SeqSet(hist.batch_ids), !.batch_ids = <<>>]
    /\ wt_pc' = AfterWait(wt_pc)
    /\ UNCHANGED <<ctx, rt, state, rendered_fences, slot_timestamp, fence_state, request_queue,
                   rt_pc, wait_request, mem, last_frame_waited, notification_mutex, device>>

\* wait_for_fences when waitForFences gives a result other than eSuccess: the
\* error is logged and assert(false) ends the process where assertions are
\* compiled in; where they are not, the lambda returns with the batch kept
\* and the handler goes on
wait_for_fences_failed ==
    /\ rt_pc # "crashed"
    /\ wt_pc \in {"notification_wait", "frame_done_wait", "post_surface_sync_wait"}
    /\ wt_fences # <<>>
    /\ \E assertions \in BOOLEAN :
          IF assertions
          THEN wt_pc' = "assert_failed" /\ rt_pc' = "crashed"
          ELSE wt_pc' = AfterWait(wt_pc) /\ rt_pc' = rt_pc
    /\ UNCHANGED <<ctx, rt, state, rendered_fences, slot_timestamp, fence_state, request_queue,
                   wait_request, wt_fences, mem, last_frame_waited, notification_mutex,
                   device, hist>>

\* the handler going on to its writes without taking the notification mutex
WtLock_not_taken ==
    /\ rt_pc # "crashed"
    /\ wt_pc = "notification_lock"
    /\ wt_pc' = "write0"
    /\ UNCHANGED <<ctx, rt, state, rendered_fences, slot_timestamp, fence_state, request_queue,
                   rt_pc, wait_request, wt_fences, mem, last_frame_waited, device, hist,
                   notification_mutex>>

\* std::unique_lock lock(state.notification_mutex)
WtLock ==
    /\ rt_pc # "crashed"
    /\ wt_pc = "notification_lock"
    /\ notification_mutex = "free"
    /\ notification_mutex' = "wait_thread"
    /\ wt_pc' = "write0"
    /\ UNCHANGED <<ctx, rt, state, rendered_fences, slot_timestamp, fence_state, request_queue,
                   rt_pc, wait_request, wt_fences, mem, last_frame_waited, device, hist>>

\* the history entry of one guest-memory write
WriteEvent(request, k) ==
    [id |-> request.id, slot |-> k,
     address |-> request.notifications[k].address,
     value |-> request.notifications[k].value,
     signaled |-> fence_state[request.fence] = "S",
     observed |-> request.id \in hist.waited_ids]

\* the writes of the NotificationRequest handler with the second one left out
write_notification_first_only(k, next_pc) ==
    LET n == wait_request.notifications[k]
    IN  /\ IF n.address # 0 /\ k = 1
           THEN /\ mem' = [mem EXCEPT ![n.address] = n.value]
                /\ hist' = [hist EXCEPT
                              !.writes = @ \cup {WriteEvent(wait_request, k)},
                              !.dup_write = @ \/ (\E w \in hist.writes :
                                                     w.id = wait_request.id /\ w.slot = k)]
           ELSE UNCHANGED <<mem, hist>>
        /\ wt_pc' = next_pc
        /\ UNCHANGED <<ctx, rt, state, rendered_fences, slot_timestamp, fence_state,
                       request_queue, rt_pc, wait_request, wt_fences, last_frame_waited,
                       notification_mutex, device>>

\* if (notifications[k].address) *address.get(mem) = value
write_notification(k, next_pc) ==
    LET n == wait_request.notifications[k]
    IN  /\ IF n.address # 0
           THEN /\ mem' = [mem EXCEPT ![n.address] = n.value]
                /\ hist' = [hist EXCEPT
                              !.writes = @ \cup {WriteEvent(wait_request, k)},
                              !.dup_write = @ \/ (\E w \in hist.writes :
                                                     w.id = wait_request.id /\ w.slot = k)]
           ELSE UNCHANGED <<mem, hist>>
        /\ wt_pc' = next_pc
        /\ UNCHANGED <<ctx, rt, state, rendered_fences, slot_timestamp, fence_state,
                       request_queue, rt_pc, wait_request, wt_fences, last_frame_waited,
                       notification_mutex, device>>

WtWrite0 == rt_pc # "crashed" /\ wt_pc = "write0" /\ write_notification(1, "write1")

WtWrite1 == rt_pc # "crashed" /\ wt_pc = "write1" /\ write_notification(2, "unlock")

\* lock.unlock()
WtUnlock ==
    /\ rt_pc # "crashed"
    /\ wt_pc = "unlock"
    /\ notification_mutex' = "free"
    /\ wt_pc' = "notify"
    /\ UNCHANGED <<ctx, rt, state, rendered_fences, slot_timestamp, fence_state, request_queue,
                   rt_pc, wait_request, wt_fences, mem, last_frame_waited, device, hist>>

\* state.notification_ready.notify_all()
WtNotify ==
    /\ rt_pc # "crashed"
    /\ wt_pc = "notify"
    /\ hist' = [hist EXCEPT !.notified = @ \cup {wait_request.id}]
    /\ wt_pc' = "pop"
    /\ UNCHANGED <<ctx, rt, state, rendered_fences, slot_timestamp, fence_state, request_queue,
                   rt_pc, wait_request, wt_fences, mem, last_frame_waited,
                   notification_mutex, device>>

\* the FrameDoneRequest handler after its wait
WtFrameDone ==
    /\ rt_pc # "crashed"
    /\ wt_pc = "frame_done"
    /\ last_frame_waited' = wait_request.frame_timestamp
    /\ wt_pc' = "pop"
    /\ UNCHANGED <<ctx, rt, state, rendered_fences, slot_timestamp, fence_state, request_queue,
                   rt_pc, wait_request, wt_fences, mem, notification_mutex, device, hist>>

\* the PostSurfaceSyncRequest handler after its wait
WtPostSurfaceSync ==
    /\ rt_pc # "crashed"
    /\ wt_pc = "post_surface_sync"
    /\ hist' = [hist EXCEPT !.finalized = @ \cup {[id |-> wait_request.id,
                                                   cache_info |-> wait_request.cache_info,
                                                   waited |-> hist.waited_ids]}]
    /\ wt_pc' = "pop"
    /\ UNCHANGED <<ctx, rt, state, rendered_fences, slot_timestamp, fence_state, request_queue,
                   rt_pc, wait_request, wt_fences, mem, last_frame_waited,
                   notification_mutex, device>>

\* a thread that awaits notifications takes the notification mutex
ReaderLock ==
    /\ rt_pc # "crashed"
    /\ notification_mutex = "free"
    /\ notification_mutex' = "reader"
    /\ UNCHANGED <<ctx, rt, state, rendered_fences, slot_timestamp, fence_state, request_queue,
                   rt_pc, wt_pc, wait_request, wt_fences, mem, last_frame_waited, device, hist>>

\* and, having read the guest memory under the mutex, releases it
ReaderRead ==
    /\ rt_pc # "crashed"
    /\ notification_mutex = "reader"
    /\ notification_mutex' = "free"
    /\ UNCHANGED <<ctx, rt, state, rendered_fences, slot_timestamp, fence_state, request_queue,
                   rt_pc, wt_pc, wait_request, wt_fences, mem, last_frame_waited, device, hist>>

\* the owner of the context closes the Request Queue and issues no more calls
Close ==
    /\ rt_pc = "run"
    /\ rt_pc' = "closed"
    /\ UNCHANGED <<ctx, rt, state, rendered_fences, slot_timestamp, fence_state, request_queue,
                   wait_vars, device, hist>>

\* the Request Queue is closed
queue_closed == rt_pc = "closed"

\* request_queue.pop() on a closed queue with nothing left gives no request
queue_pop_empty == queue_closed /\ request_queue = <<>>

\* the loop exit taken when a request was popped instead of when none was
WtExit_inverted ==
    /\ wt_pc = "pop"
    /\ request_queue # <<>>
    /\ wt_pc' = "exited"
    /\ UNCHANGED <<ctx, rt, state, rendered_fences, slot_timestamp, fence_state, request_queue,
                   rt_pc, wait_request, wt_fences, mem, last_frame_waited,
                   notification_mutex, device, hist>>

\* if (!wait_request) break;
WtExit ==
    /\ wt_pc = "pop"
    /\ queue_pop_empty
    /\ wt_pc' = "exited"
    /\ UNCHANGED <<ctx, rt, state, rendered_fences, slot_timestamp, fence_state, request_queue,
                   rt_pc, wait_request, wt_fences, mem, last_frame_waited,
                   notification_mutex, device, hist>>

\* ------------------------------------------------------------ specification
\* the render thread and the GPU (memory mapping not supported)
Next ==
    \/ SetContext
    \/ StartRecording
    \/ StartRenderPass
    \/ StopRenderPass
    \/ StopRecording
    \/ Draw
    \/ NewFrameBegin
    \/ NewFrameEnd
    \/ GpuSignal

\* the render thread, the wait thread and the GPU (memory mapping supported)
NextSync ==
    \/ SetContextSync
    \/ StartRecording
    \/ StartRenderPass
    \/ StopRenderPass
    \/ StopRecording
    \/ NewFrameBegin
    \/ NewFrameEnd
    \/ GpuSignal
    \/ WtPop
    \/ wait_for_fences
    \/ WtLock
    \/ WtWrite0
    \/ WtWrite1
    \/ WtUnlock
    \/ WtNotify
    \/ WtFrameDone
    \/ WtPostSurfaceSync

Spec == Init /\ [][Next]_vars

SpecSync == InitSync /\ [][NextSync]_vars

\* the wait thread is scheduled whenever it can take a step, and the GPU
\* completes every submission
Fairness ==
    /\ WF_vars(WtPop)
    /\ WF_vars(wait_for_fences)
    /\ WF_vars(WtLock)
    /\ WF_vars(WtWrite0)
    /\ WF_vars(WtWrite1)
    /\ WF_vars(WtUnlock)
    /\ WF_vars(WtNotify)
    /\ WF_vars(WtFrameDone)
    /\ WF_vars(WtPostSurfaceSync)
    /\ WF_vars(GpuSignal)

SpecLive == InitSync /\ [][NextSync]_vars /\ Fairness

\* the render thread, the wait thread and the GPU, up to and after the closing
\* of the Request Queue
NextShutdown ==
    \/ SetContextSync
    \/ StartRecording
    \/ StartRenderPass
    \/ StopRenderPass
    \/ StopRecording
    \/ NewFrameBegin
    \/ NewFrameEnd
    \/ GpuSignal
    \/ Close
    \/ WtPop
    \/ wait_for_fences
    \/ WtLock
    \/ WtWrite0
    \/ WtWrite1
    \/ WtUnlock
    \/ WtNotify
    \/ WtFrameDone
    \/ WtPostSurfaceSync
    \/ WtExit

SpecShutdown == InitSync /\ [][NextShutdown]_vars /\ Fairness /\ WF_vars(WtExit)

\* the render thread, the wait thread and the GPU on a device whose
\* waitForFences can fail
NextFault ==
    \/ SetContextSync
    \/ StartRecording
    \/ StartRenderPass
    \/ StopRenderPass
    \/ StopRecording
    \/ NewFrameBegin
    \/ NewFrameEnd
    \/ GpuSignal
    \/ WtPop
    \/ wait_for_fences
    \/ wait_for_fences_failed
    \/ WtLock
    \/ WtWrite0
    \/ WtWrite1
    \/ WtUnlock
    \/ WtNotify
    \/ WtFrameDone
    \/ WtPostSurfaceSync

\* memory mapping supported, one recording session
InitFew == InitWith({0}, {TRUE}, FewSessions)

SpecFault == InitFew /\ [][NextFault]_vars

\* the render thread, the wait thread, the GPU and a thread that reads the
\* notifications
NextReader ==
    \/ SetContextSync
    \/ StartRecording
    \/ StartRenderPass
    \/ StopRenderPass
    \/ StopRecording
    \/ NewFrameBegin
    \/ NewFrameEnd
    \/ GpuSignal
    \/ ReaderLock
    \/ ReaderRead
    \/ WtPop
    \/ wait_for_fences
    \/ WtLock
    \/ WtWrite0
    \/ WtWrite1
    \/ WtUnlock
    \/ WtNotify
    \/ WtFrameDone
    \/ WtPostSurfaceSync

SpecReader == InitFew /\ [][NextReader]_vars

\* the render thread and the GPU, with every colour surface
NextSurface ==
    \/ SetContextSurface
    \/ StartRecording
    \/ StartRenderPass
    \/ StopRenderPass
    \/ StopRecording
    \/ NewFrameBegin
    \/ NewFrameEnd
    \/ GpuSignal

InitSurface == InitWith({0, 1}, {FALSE}, FewSessions)

SpecSurface == InitSurface /\ [][NextSurface]_vars

handler_vars == <<ctx, rt, device, rendered_fences, fence_state, request_queue>>

\* C3: cmd_buffer_idx moves only when a recording session starts, and then by
\* exactly one, from zero if and only if the render target was last used in
\* another frame timestamp; so on a render target used in the current frame
\* it counts the sessions started in that frame.
C3_CmdBufferIdx ==
    [][/\ IF ~ctx.is_recording /\ ctx'.is_recording
          THEN rt'.cmd_buffer_idx =
                  (IF rt.last_used_frame # ctx.frame_timestamp THEN 0 ELSE rt.cmd_buffer_idx) + 1
          ELSE rt'.cmd_buffer_idx = rt.cmd_buffer_idx
       /\ rt'.last_used_frame = ctx'.frame_timestamp =>
             rt'.cmd_buffer_idx = hist'.sessions_in_frame]_vars

\* C3 witness: after two sessions in the first frame, the first session of
\* the second frame is being recorded with the index back at one.
C3_Witness ==
    /\ ctx.is_recording
    /\ ctx.frame_timestamp = 2
    /\ hist.sessions = 3
    /\ hist.sessions_in_frame = 1
    /\ rt.cmd_buffer_idx = 1

\* C4: the extent doubling is reversible: when stop_recording completes a
\* session, the render target's width and height are what they were before
\* every set_context call made since the last completed session.
C4_ExtentReversible ==
    [][(ctx.is_recording /\ StopRecording) =>
          \A e \in hist.ctx_pending : <<rt'.width, rt'.height>> = e]_vars

\* C5: a session that starts with cmd_buffer_idx at the number of command
\* buffers of the frame slot grows the two command buffer pools of that slot
\* and the fence pool by one entry each, and the stop_recording of that session
\* submits with the new fence, which no earlier scene of the frame used.
C5_GrowByOne ==
    [][/\ (~ctx.is_recording /\ ctx'.is_recording) =>
             LET cur == ctx.current_frame_idx
                 idx == IF rt.last_used_frame # ctx.frame_timestamp THEN 0 ELSE rt.cmd_buffer_idx
             IN  idx = Len(rt.cmd_buffers[cur]) =>
                    /\ Len(rt'.cmd_buffers[cur]) = Len(rt.cmd_buffers[cur]) + 1
                    /\ Len(rt'.pre_cmd_buffers[cur]) = Len(rt.pre_cmd_buffers[cur]) + 1
                    /\ Len(rt'.fences) = Len(rt.fences) + 1
                    /\ \A s \in Slots \ {cur} :
                          /\ rt'.cmd_buffers[s] = rt.cmd_buffers[s]
                          /\ rt'.pre_cmd_buffers[s] = rt.pre_cmd_buffers[s]
                    /\ hist'.session.grew
                    /\ SeqSet(rt'.fences) \ SeqSet(rt.fences) = {hist'.session.new_fence}
       /\ (ctx.is_recording /\ ~ctx'.is_recording /\ hist.session.grew) =>
             LET cur == ctx.current_frame_idx
                 fence == rendered_fences'[cur][Len(rendered_fences'[cur])]
             IN  /\ Len(rendered_fences'[cur]) = Len(rendered_fences[cur]) + 1
                 /\ fence = hist.session.new_fence
                 /\ fence \notin SeqSet(hist.frame_fences)
                 /\ fence_state[fence] = "U"
                 /\ fence_state'[fence] = "P"]_vars

\* C5 witness: the second scene of a frame, on a target created for one scene
\* per frame, was submitted with the fence its start_recording created.
C5_Witness ==
    /\ hist.last_call = [name |-> "stop_recording", changed |-> TRUE]
    /\ hist.session.grew
    /\ hist.submitted = hist.session.new_fence
    /\ Len(hist.frame_fences) = ScenesPerFrame + 1

\* C6: start_render_pass inside a render pass changes nothing of the context,
\* the render target or the device: no second pass is begun.
C6_NoSecondPass ==
    [][(ctx.in_renderpass /\ StartRenderPass) => UNCHANGED handler_vars]_vars

\* C6 witness: start_render_pass was called inside a render pass with textures
\* and a pipeline bound, and they are still bound.
C6_Witness ==
    /\ hist.last_call = [name |-> "start_render_pass", changed |-> FALSE]
    /\ ctx.in_renderpass
    /\ ctx.texture_cache = "bound"
    /\ ~ctx.refresh_pipeline
    /\ device.passes_open = 1

\* C7: start_recording while recording, or with no render target bound,
\* changes nothing and begins no command buffer.
C7_StartRecordingNoOp ==
    [][((ctx.is_recording \/ ctx.render_target = NullRT) /\ StartRecording) =>
          UNCHANGED handler_vars]_vars

\* C7 witness: start_recording was called during a recording session, which
\* goes on with the same command buffers.
C7_Witness ==
    /\ hist.last_call = [name |-> "start_recording", changed |-> FALSE]
    /\ ctx.is_recording
    /\ ctx.render_cmd \in device.recording
    /\ rt.cmd_buffer_idx = 1

\* C8: stop_render_pass outside a render pass and stop_recording outside a
\* recording session change nothing: no fence is taken, nothing is submitted
\* or pushed, the extent stays.
C8_StopNoOp ==
    [][/\ (~ctx.in_renderpass /\ StopRenderPass) => UNCHANGED handler_vars
       /\ (~ctx.is_recording /\ StopRecording) => UNCHANGED handler_vars]_vars

\* C8 witness: stop_recording was called after the session was already
\* stopped, with its request still in the queue.
C8_Witness ==
    /\ hist.last_call = [name |-> "stop_recording", changed |-> FALSE]
    /\ ~ctx.is_recording
    /\ Len(request_queue) = 1
    /\ rt.fence_idx = 1

\* C9: a stop_recording that completes a session submits with a fence and,
\* with memory mapping, appends to the queue exactly one NotificationRequest
\* with notif1, notif2 and that fence, directly followed by exactly one
\* PostSurfaceSyncRequest if and only if the surface sync gave a handle;
\* without memory mapping the queue stays as it is.
C9_PushOrder ==
    [][\A in \in StopInputs :
          (ctx.is_recording /\ StopRecordingWith(in)) =>
             LET cur == ctx.current_frame_idx
                 fence == rendered_fences'[cur][Len(rendered_fences'[cur])]
                 handle == IF in.disable_surface_sync THEN 0 ELSE SyncHandle(in)
                 id == hist.next_id
             IN  /\ Len(rendered_fences'[cur]) = Len(rendered_fences[cur]) + 1
                 /\ fence_state'[fence] = "P"
                 /\ request_queue' =
                       IF state.features.support_memory_mapping
                       THEN request_queue
                              \o <<NotificationRequest(id, Notif1(in), Notif2(in), fence)>>
                              \o (IF handle # 0
                                  THEN <<PostSurfaceSyncRequest(id + 1, handle)>>
                                  ELSE <<>>)
                       ELSE request_queue]_vars

\* C9 witness: stop_recording has just pushed a NotificationRequest and the
\* PostSurfaceSyncRequest of the same session right behind it.
C9_Witness ==
    /\ hist.last_call = [name |-> "stop_recording", changed |-> TRUE]
    /\ Len(request_queue) >= 2
    /\ LET n == Len(request_queue)
       IN  /\ request_queue[n - 1].kind = "NotificationRequest"
           /\ request_queue[n - 1].fence = hist.submitted
           /\ request_queue[n].kind = "PostSurfaceSyncRequest"
           /\ request_queue[n].id = request_queue[n - 1].id + 1

\* the expected write e has been made: its address holds its value
Written(e) ==
    \E w \in hist.writes :
        w.id = e.id /\ w.slot = e.slot /\ w.address = e.address /\ w.value = e.value

\* notification k of recording session s was pushed with an address
Expected(s, k) ==
    \E e \in hist.expected : e.slot = k /\ e.value = NotifValue(s, k)

\* notification k of session s is in guest memory and its waiters are notified
Delivered(s, k) ==
    \A e \in hist.expected :
        (e.slot = k /\ e.value = NotifValue(s, k)) => Written(e) /\ e.id \in hist.notified

\* C10: with the wait thread scheduled fairly and every submitted fence
\* signaled in the end, each notification with an address that a
\* stop_recording pushed is written to guest memory with its value, once and
\* not twice, and notification_ready is notified for its request after the
\* write and never before it.
C10_Delivered ==
    /\ [](~hist.dup_write)
    /\ [](\A e \in hist.expected : e.id \in hist.notified => Written(e))
    /\ \A s \in 1 .. SyncSessions : \A k \in 1 .. 2 : Expected(s, k) ~> Delivered(s, k)

\* C10 witness: both notifications of a request had an address, both are
\* written and the waiters are notified.
C10_Witness ==
    \E s \in 1 .. SyncSessions :
        /\ Expected(s, 1) /\ Expected(s, 2)
        /\ Delivered(s, 1) /\ Delivered(s, 2)
        /\ \E e \in hist.expected : e.value = NotifValue(s, 2) /\ mem[e.address] = e.value

C12_ShutdownDrains ==
    /\ [](wt_pc = "exited" =>
             /\ queue_closed
             /\ request_queue = <<>>
             /\ hist.popped = [i \in 1 .. (hist.next_id - 1) |-> i])
    /\ queue_closed ~> (wt_pc = "exited")

\* C12 witness: the queue was closed with three requests not yet popped, and
\* the wait thread has handled them and left its loop.
C12_Witness ==
    /\ wt_pc = "exited"
    /\ Len(hist.popped) >= 3
    /\ hist.notified # {}
    /\ hist.finalized # {}
    /\ last_frame_waited = 0

\* C13: a failed wait on the batch ends the wait thread in the assertion
\* failure, and no notification is written, no last_frame_waited stored and
\* no surface sync finalized for a request whose fence, or an earlier
\* request's fence, was not in a batch that a wait returned on successfully.
C13_WaitFailureFatal ==
    [][/\ wait_for_fences_failed => wt_pc' = "assert_failed"
       /\ ((WtWrite0 \/ WtWrite1) /\ hist'.writes # hist.writes) =>
             wait_request.id \in hist.waited_ids
       /\ (WtFrameDone \/ WtPostSurfaceSync) =>
             \A i \in hist.notif_ids : i < wait_request.id => i \in hist.waited_ids]_vars

\* some request has one of its addressed notifications in guest memory and
\* another one not yet
Torn ==
    \E e1 \in hist.expected : \E e2 \in hist.expected :
        e1.id = e2.id /\ Written(e1) /\ ~Written(e2)

\* C14: a thread that reads guest memory while it holds notification_mutex
\* finds, of every request, all addressed notifications written or none; and
\* notify_all is called with every addressed notification of the request
\* written and the mutex no longer held by the wait thread.
C14_AtomicWrites ==
    [][/\ ReaderRead => ~Torn
       /\ WtNotify =>
             /\ notification_mutex # "wait_thread"
             /\ \A e \in hist.expected : e.id = wait_request.id => Written(e)]_vars

\* C14 witness: the reader holds the mutex while the wait thread, past its
\* wait with a request of two addressed notifications, stands at the lock.
C14_Witness ==
    /\ notification_mutex = "reader"
    /\ wt_pc = "notification_lock"
    /\ wait_request.notifications[1].address # 0
    /\ wait_request.notifications[2].address # 0
    /\ ~Torn

\* C15: set_context on a colour surface whose address is null asks for the
\* render pass of the default format R8G8B8A8Unorm whatever the surface's
\* colour format and gamma are, leaves the record with is_gamma_corrected,
\* downscale and is_maskupdate false and the base format U8U8U8U8, and looks
\* the framebuffer up with a null colour surface.  (last_call names the last
\* call of the render thread; nothing else changes the context.)
C15_NullSurfaceDefaults ==
    (hist.last_call.name = "set_context" /\ ctx.record.color_surface.address = 0) =>
        /\ ctx.current_render_pass = "R8G8B8A8Unorm"
        /\ ~ctx.record.is_gamma_corrected
        /\ ~ctx.record.color_surface.downscale
        /\ ~ctx.record.is_maskupdate
        /\ ctx.record.color_base_format = "U8U8U8U8"
        /\ ctx.current_framebuffer.color = "null"

\* C15 witness: set_context ran on a gamma half-float surface without memory
\* and asked for the default format.
C15_Witness ==
    /\ hist.last_call.name = "set_context"
    /\ ctx.record.color_surface.address = 0
    /\ ctx.record.color_surface.colorFormat = "F16F16F16F16_ABGR"
    /\ ctx.record.color_surface.gamma
    /\ ctx.current_render_pass = "R8G8B8A8Unorm"
    /\ ctx.record.color_base_format = "U8U8U8U8"
    /\ ctx.current_framebuffer.color = "null"

\* C16: a stop_recording called while recording, inside or outside a render
\* pass, with or without an open query, leaves the context idle:
\* is_recording, in_renderpass and is_in_query false, visibility_max_used_idx
\* -1, render_cmd and prerender_cmd null; and the render pass was closed when
\* the command buffers were submitted.  (A stop_recording that changed
\* anything is one that was called while recording.)
C16_StopReturnsToIdle ==
    hist.last_call = [name |-> "stop_recording", changed |-> TRUE] =>
        /\ ~ctx.is_recording
        /\ ~ctx.in_renderpass
        /\ ~ctx.is_in_query
        /\ ctx.visibility_max_used_idx = -1
        /\ ctx.render_cmd = NullCmd
        /\ ctx.prerender_cmd = NullCmd
        /\ ~hist.submit_in_pass
        /\ device.passes_open = 0

\* C16 witness: stop_recording was called inside a render pass with an open
\* occlusion query and has submitted the scene.
C16_Witness ==
    /\ hist.last_call = [name |-> "stop_recording", changed |-> TRUE]
    /\ hist.stopped_in_query
    /\ hist.submitted # NullFence
    /\ ~ctx.is_recording

\* C17: when the wait thread has left its loop, the fence of every
\* NotificationRequest, also of those without a notification address, was in
\* a batch that wait_for_fences returned on: a fence that was only batched is
\* waited for by a later flush or at the shutdown, before the thread exits.
C17_BatchedFenceWaited ==
    wt_pc = "exited" => \A i \in hist.notif_ids : i \in hist.waited_ids

\* C18: on a multisample render target the extent is the base extent or twice
\* the base extent, and the base extent whenever the context is not recording:
\* the doubling is applied at most once a scene and taken back once, also for
\* a session opened without set_context and for a set_context while recording.
C18_ExtentBaseOrDouble ==
    rt.multisample_mode # 0 =>
        /\ <<rt.width, rt.height>> \in {<<BaseWidth, BaseHeight>>,
                                        <<2 * BaseWidth, 2 * BaseHeight>>}
        /\ ~ctx.is_recording => <<rt.width, rt.height>> = <<BaseWidth, BaseHeight>>

\* C19: a render pass is open only on a command buffer that is being
\* recorded: in_renderpass implies is_recording, in every state.
C19_PassImpliesRecording ==
    ctx.in_renderpass => ctx.is_recording

\* the elements of a sequence are all different
NoRepeat(seq) ==
    \A i \in 1 .. Len(seq) : \A j \in 1 .. Len(seq) : seq[i] = seq[j] => i = j

\* C20: fence_idx is an index into the fence ring, and the recording sessions
\* of one frame timestamp take pairwise different command buffers and are
\* submitted with pairwise different fences, however many they are.
C20_FenceRing ==
    /\ rt.fence_idx \in 0 .. (Len(rt.fences) - 1)
    /\ NoRepeat(hist.frame_cmds)
    /\ NoRepeat(hist.frame_fences)

\* C20 witness: three sessions of one frame were submitted, two of them after
\* a growth of the pools, and the ring is back at its start.
C20_Witness ==
    /\ Len(hist.frame_fences) = ScenesPerFrame + 2
    /\ Len(hist.frame_cmds) = ScenesPerFrame + 2
    /\ ~ctx.is_recording
    /\ Len(rt.fences) = FrameSlots * ScenesPerFrame + 2

====
